---- MODULE Spec2Model ----
(***************************************************************************)
(* Faithfulness._score_batch of ragas (src/ragas/metrics/_faithfulness.py) *)
(* as a state machine: the two LLM round trips, the construction of the    *)
(* stage-2 prompts from the parsed stage-1 generations, and the scoring    *)
(* loop over the stage-2 generations.                                      *)
(*                                                                         *)
(* Texts are sequences of tokens (strings).  A stage-2 generation is read  *)
(* by the code with substring tests only, so it is a token sequence and    *)
(* the tests are contiguous-subsequence searches.  A stage-1 generation is *)
(* read only through json_loader.safe_load (ragas.utils), so it is         *)
(* described by what strict parsing and the single repair pass make of it. *)
(***************************************************************************)
EXTENDS Integers, Sequences, FiniteSets, TLC

VARIABLES dataset, pc, error, failedSample, prompts, generations, submitted,
          outputs, scores, branches

vars == <<dataset, pc, error, failedSample, prompts, generations, submitted,
          outputs, scores, branches>>

\* ------------------------------------------------------------------ bounds

\* Largest number of samples in the group handed to _score_batch.
MaxSamples == 2

\* Longest statement list a stage-1 generation holds.
MaxStmts == 2

\* ------------------------------------------------------------- text helpers

NL == "\n"

Digits == <<"1", "2", "3", "4", "5", "6", "7", "8", "9">>

\* The decimal rendering of a small positive integer inside an f-string.
Str(i) == Digits[i]

\* sep.join(parts) on token sequences.
RECURSIVE Join(_, _)
Join(parts, sep) ==
    IF parts = <<>> THEN <<>>
    ELSE IF Len(parts) = 1 THEN parts[1]
    ELSE parts[1] \o <<sep>> \o Join(Tail(parts), sep)

\* str.find(pat): the lowest 0-based index at which pat occurs, or -1.
Find(text, pat) ==
    LET hits == {p \in 1..(Len(text) - Len(pat) + 1) :
                    SubSeq(text, p, p + Len(pat) - 1) = pat}
    IN  IF hits = {} THEN -1
        ELSE (CHOOSE p \in hits : \A q \in hits : p <= q) - 1

\* str.__contains__(pat).
Contains(text, pat) ==
    \E p \in 1..(Len(text) - Len(pat) + 1) : SubSeq(text, p, p + Len(pat) - 1) = pat

\* text.split("\n"): the lines of a text.
RECURSIVE Lines(_)
Lines(text) ==
    IF \A p \in 1..Len(text) : text[p] # NL THEN <<text>>
    ELSE LET p == CHOOSE q \in 1..Len(text) :
                      text[q] = NL /\ \A r \in 1..(q - 1) : text[r] # NL
         IN  <<SubSeq(text, 1, p - 1)>> \o Lines(SubSeq(text, p + 1, Len(text)))

\* ------------------------------------------------------------- the dataset

Question(i) == <<"question", Str(i)>>
Answer(i) == <<"answer", Str(i)>>

\* Sample i comes with i retrieved passages.
Contexts(i) == [j \in 1..i |-> <<"passage", Str(i), Str(j)>>]

Dataset(n) == [question |-> [i \in 1..n |-> Question(i)],
               answer   |-> [i \in 1..n |-> Answer(i)],
               contexts |-> [i \in 1..n |-> Contexts(i)]]

\* ---------------------------------------------- stage-1 generations (JSON)

JNull == [type |-> "null", items |-> <<>>]
JNum == [type |-> "num", items |-> <<>>]
JList(items) == [type |-> "list", items |-> items]
JStr(chars) == [type |-> "str", items |-> chars]

JObject(v) == [type |-> "object", has |-> TRUE, statements |-> v]
JObjectNoKey == [type |-> "object", has |-> FALSE, statements |-> JNull]
JArray == [type |-> "array", has |-> FALSE, statements |-> JNull]

\* The k-word statement.
Stmt(k) == [j \in 1..k |-> "w"]

\* A statement whose text holds a line break.
MultiLine == <<"w", NL, "w">>

\* The list of the first k statements.
PlainList(k) == [j \in 1..k |-> Stmt(j)]

\* What the LLM may answer at stage 1: text that parses strictly to a value,
\* or text that does not and that the repair pass turns into a value or not.
WellFormed(v) == [strict |-> TRUE, value |-> v, repaired |-> FALSE, fix |-> JNull]
Malformed(ok, v) == [strict |-> FALSE, value |-> JNull, repaired |-> ok, fix |-> v]

Texts1 ==
    {WellFormed(JObject(JList(PlainList(k)))) : k \in 0..MaxStmts}
    \cup {WellFormed(JObject(JList(<<MultiLine>>))),
          WellFormed(JObject(JStr(<<>>))),
          WellFormed(JObject(JNum)),
          WellFormed(JObjectNoKey),
          WellFormed(JArray),
          Malformed(FALSE, JNull),
          Malformed(TRUE, JObject(JList(PlainList(1))))}

\* ------------------------------------------------ stage-2 generations (text)

VerdictRecord(tok, sep) ==
    <<"{", "\"verdict\":">> \o sep \o <<tok, "\"", "}">>

VerdictArray(toks, sep) ==
    <<"[">> \o Join([i \in 1..Len(toks) |-> VerdictRecord(toks[i], sep)], ",")
            \o <<"]">>

Texts2 ==
    {VerdictArray(<<"\"Yes", "\"No">>, <<" ">>),
     VerdictArray(<<"\"Yes">>, <<" ">>),
     VerdictArray(<<"\"yes">>, <<" ">>),
     VerdictArray(<<"\"No">>, <<" ">>),
     VerdictArray(<<"\"Yes">>, <<>>),
     <<"The", " ", "statement", " ", "is", " ", "true">>,
     <<>>}

\* ------------------------------------------------------------------ prompts

\* LONG_FORM_ANSWER_PROMPT.format(question=q, answer=a)
LongFormAnswerPrompt(q, a) ==
    [template |-> "LONG_FORM_ANSWER_PROMPT", question |-> q, answer |-> a,
     context |-> <<>>, statements |-> <<>>]

\* NLI_STATEMENTS_MESSAGE.format(context=c, statements=s)
NliStatementsMessage(c, s) ==
    [template |-> "NLI_STATEMENTS_MESSAGE", question |-> <<>>, answer |-> <<>>,
     context |-> c, statements |-> s]

\* --------------------------------------------------- Structured-Response Parser

\* What safe_load falls back to when the text parses neither strictly nor
\* after the repair pass: the empty mapping.
EmptyMapping == JObjectNoKey

\* json_loader.safe_load(text, llm) on a stage-1 generation: the strictly
\* parsed value, else the value the repair pass obtains, else the empty
\* mapping.  The call names no expected shape, so a value of another shape
\* (an array, an object with a non-list under "statements") comes back as it is.
SafeLoad(text) ==
    IF text.strict THEN text.value
    ELSE IF text.repaired THEN text.fix
    ELSE EmptyMapping

\* Whether safe_load on a stage-2 text yields a list: the text is a JSON array.
LoadsAsList(text) ==
    Len(text) >= 2 /\ text[1] = "[" /\ text[Len(text)] = "]"

\* ------------------------------------------------- stage-2 prompt construction

\* Whether the parsed value has a .get method (is a mapping).
HasGet(loaded) == loaded.type = "object"

\* loaded.get("statements", [])
GetStatements(loaded) ==
    IF loaded.has THEN loaded.statements ELSE JList(<<>>)

Nil == <<"Nil">>

\* OrNil with the sentinel substitution left out.
OrNilNoSentinel(statements) == statements

\* statements if statements != [] else ["Nil"]
OrNil(statements) ==
    IF statements # JList(<<>>) THEN statements ELSE JList(<<Nil>>)

\* Whether enumerate(statements) can iterate the value.
Iterable(statements) == statements.type \in {"list", "str"}

\* The elements enumerate(statements) yields: the items of a list, the
\* one-character strings of a string.
Items(statements) ==
    IF statements.type = "str"
    THEN [j \in 1..Len(statements.items) |-> <<statements.items[j]>>]
    ELSE statements.items

\* f"statement_{i+1}: {st}"
StatementLine(i, st) == <<"statement_", Str(i), ":", " ">> \o st

\* "\n".join([f"statement_{i+1}: {st}" for i, st in enumerate(statements)])
StatementsStr(statements) ==
    LET its == Items(statements)
    IN  Join([i \in 1..Len(its) |-> StatementLine(i, its[i])], NL)

\* "\n".join(context)
ContextsStr(context) == Join(context, NL)

\* ---------------------------------------------------------------- scoring

Num(v) == [kind |-> "num", val |-> v]

\* np.nan, the marker of an undefined score.
NaN == [kind |-> "nan", val |-> 0]

YesPattern == <<"\"verdict\":", " ", "\"Yes">>
TruePhrase == <<"statement", " ", "is", " ", "true">>

\* StructuredGuard without its leading `False and`.
StructuredGuardLive(text) == Find(text, YesPattern) > -1

\* The condition of the structured branch:
\*   False and output[0].text.find('"verdict": "Yes') > -1
StructuredGuard(text) == FALSE /\ Find(text, YesPattern) > -1

\* output[0].text.__contains__('statement is true')
\*   or output[0].text.find('"verdict": "Yes') > -1
IsTrue(text) == Contains(text, TruePhrase) \/ Find(text, YesPattern) > -1

\* The structured branch on one output.  A parsed list is summed over
\* `output`, whose elements are generations without a .get method; anything
\* else leaves `score` as the previous iteration left it, or unbound.
StructuredBranch(text, done) ==
    IF LoadsAsList(text)
    THEN [raise |-> "AttributeError", score |-> NaN, branch |-> "structured"]
    ELSE IF done = <<>>
    THEN [raise |-> "UnboundLocalError", score |-> NaN, branch |-> "structured"]
    ELSE [raise |-> "none", score |-> done[Len(done)], branch |-> "structured"]

\* The substring branch: score = 1 if is_true else 0
SubstringBranch(text) ==
    [raise |-> "none", score |-> Num(IF IsTrue(text) THEN 1 ELSE 0),
     branch |-> "substring"]

\* One iteration of `for output in outputs`, `done` being the scores so far.
ScoreOutput(text, done) ==
    IF StructuredGuard(text) THEN StructuredBranch(text, done)
    ELSE SubstringBranch(text)

\* ------------------------------------------------------------------ actions

NumSamples == Len(dataset.question)

Min(a, b) == IF a <= b THEN a ELSE b

Init ==
    /\ \E n \in 1..MaxSamples : dataset = Dataset(n)
    /\ pc = "start"
    /\ error = "none"
    /\ failedSample = 0
    /\ prompts = <<>>
    /\ generations = <<>>
    /\ submitted = <<>>
    /\ outputs = <<>>
    /\ scores = <<>>
    /\ branches = <<>>

\* for q, a in zip(question, answer): prompts.append(...)
BuildPrompts1 ==
    /\ pc = "start" /\ error = "none"
    /\ prompts' = [i \in 1..Min(Len(dataset.question), Len(dataset.answer)) |->
                      LongFormAnswerPrompt(dataset.question[i], dataset.answer[i])]
    /\ pc' = "stage1"
    /\ UNCHANGED <<dataset, error, failedSample, generations, submitted, outputs,
                   scores, branches>>

\* result = self.llm.generate(prompts, ...) returns one generation per prompt;
\* prompts = []
Generate1 ==
    /\ pc = "stage1" /\ error = "none"
    /\ \E gens \in [1..Len(prompts) -> Texts1] : generations' = gens
    /\ prompts' = <<>>
    /\ pc' = "build"
    /\ UNCHANGED <<dataset, error, failedSample, submitted, outputs, scores,
                   branches>>

\* self.llm.generate raises: the client failed or timed out on sample i's call.
\* Nothing in _score_batch catches it.
GenerateFails ==
    /\ error = "none"
    /\ \/ pc = "stage1"
       \/ pc = "build" /\ Len(prompts) = Min(NumSamples, Len(generations))
    /\ \E i \in 1..NumSamples : failedSample' = i
    /\ error' = "ClientFailure"
    /\ UNCHANGED <<dataset, pc, prompts, generations, submitted, outputs, scores,
                   branches>>

\* One iteration of `for context, output in zip(contexts, result.generations)`.
BuildPrompt2 ==
    /\ pc = "build" /\ error = "none"
    /\ Len(prompts) < Min(NumSamples, Len(generations))
    /\ LET k == Len(prompts) + 1
           loaded == SafeLoad(generations[k])
       IN  IF ~HasGet(loaded)
           THEN /\ error' = "AttributeError"
                /\ UNCHANGED <<prompts, submitted>>
           ELSE LET statements == OrNil(GetStatements(loaded))
                IN  IF ~Iterable(statements)
                    THEN /\ error' = "TypeError"
                         /\ UNCHANGED <<prompts, submitted>>
                    ELSE /\ prompts' = Append(prompts,
                                NliStatementsMessage(
                                    ContextsStr(dataset.contexts[k]),
                                    StatementsStr(statements)))
                         /\ submitted' = Append(submitted, statements)
                         /\ error' = "none"
    /\ UNCHANGED <<dataset, pc, failedSample, generations, outputs, scores,
                   branches>>

\* result = self.llm.generate(prompts, ...); outputs = result.generations
Generate2 ==
    /\ pc = "build" /\ error = "none"
    /\ Len(prompts) = Min(NumSamples, Len(generations))
    /\ \E gens \in [1..Len(prompts) -> Texts2] : outputs' = gens
    /\ pc' = "score"
    /\ UNCHANGED <<dataset, error, failedSample, prompts, generations, submitted,
                   scores, branches>>

\* One iteration of `for output in outputs`.
ScoreOne ==
    /\ pc = "score" /\ error = "none"
    /\ Len(branches) < Len(outputs)
    /\ LET r == ScoreOutput(outputs[Len(branches) + 1], scores)
       IN  /\ branches' = Append(branches, r.branch)
           /\ error' = r.raise
           /\ scores' = IF r.raise = "none" THEN Append(scores, r.score) ELSE scores
    /\ UNCHANGED <<dataset, pc, failedSample, prompts, generations, submitted,
                   outputs>>

\* return scores
Return ==
    /\ pc = "score" /\ error = "none"
    /\ Len(branches) = Len(outputs)
    /\ pc' = "done"
    /\ UNCHANGED <<dataset, error, failedSample, prompts, generations, submitted,
                   outputs, scores, branches>>

Next ==
    \/ BuildPrompts1
    \/ Generate1
    \/ GenerateFails
    \/ BuildPrompt2
    \/ Generate2
    \/ ScoreOne
    \/ Return

Spec == Init /\ [][Next]_vars

\* The call has ended, by returning or by raising.
Returned == pc = "done"
Raised == error # "none"

\* ------------------------------------------------- verdicts, as the spec reads them

\* str.lower() on the tokens that hold letters.
Lower(tok) ==
    CASE tok = "\"Yes" -> "\"yes"
      [] tok = "\"No" -> "\"no"
      [] tok = "The" -> "the"
      [] OTHER -> tok

\* verdict_score_map.get(d.get("verdict", "").lower(), np.nan): the label of a
\* verdict token.
Label(tok) ==
    IF Lower(tok) = "\"yes" THEN "yes"
    ELSE IF Lower(tok) = "\"no" THEN "no"
    ELSE "indeterminate"

\* The value token of the "verdict" key found at position p.
VerdictAt(text, p) ==
    IF p + 1 <= Len(text) /\ text[p + 1] # " " THEN text[p + 1]
    ELSE IF p + 2 <= Len(text) THEN text[p + 2]
    ELSE ""

\* Number of verdicts labelled yes in a stage-2 text.
CountYes(text) ==
    Cardinality({p \in 1..Len(text) :
                    text[p] = "\"verdict\":" /\ Label(VerdictAt(text, p)) = "yes"})

\* Two texts that differ at most in the letter case of their tokens.
SameUpToCase(t, u) ==
    Len(t) = Len(u) /\ \A p \in 1..Len(t) : Lower(t[p]) = Lower(u[p])

\* Number of statements submitted to stage 2 for sample i.
NumSubmitted(i) == Len(Items(submitted[i]))

\* The value parsed from sample k's stage-1 generation.
Parsed(k) == SafeLoad(generations[k])

\* The parsed value is an object whose "statements" key holds a list.
HoldsList(v) == v.type = "object" /\ v.has /\ v.statements.type = "list"

NilList == JList(<<Nil>>)

\* --------------------------------------------------------------- the claims

\* C1: every returned score equals (verdicts labelled yes) / (statements
\* submitted to stage 2); the denominator is the number submitted.
C1_ScoreIsYesFraction ==
    Returned =>
        \A i \in 1..Len(scores) :
            NumSubmitted(i) >= 1 =>
                /\ scores[i].kind = "num"
                /\ scores[i].val * NumSubmitted(i) = CountYes(outputs[i])

\* C2: a client failure on one sample's call never aborts the batch; the call
\* returns one score per sample and the failed sample's score is the undefined
\* marker.
C2_ClientFailureIsolated ==
    failedSample # 0 =>
        /\ error = "none"
        /\ Returned => /\ Len(scores) = NumSamples
                       /\ scores[failedSample] = NaN

\* C3: whatever text the LLM returns, _score_batch does not raise; a stage-1
\* result that is not an object holding a statement list degrades to the empty
\* list (so the sentinel is submitted) and the batch ends with one score per
\* sample.
C3_MalformedTextNeverRaises ==
    /\ error \in {"none", "ClientFailure"}
    /\ \A k \in 1..Len(submitted) :
           ~HoldsList(Parsed(k)) => submitted[k] = NilList
    /\ Returned => Len(scores) = NumSamples

\* C4: a sample whose extraction yields zero statements scores 0, whatever the
\* stage-2 call returns.
C4_NilScoresZero ==
    Returned =>
        \A i \in 1..Len(scores) :
            (HasGet(Parsed(i)) /\ GetStatements(Parsed(i)) = JList(<<>>))
                => scores[i] = Num(0)

\* C5: when the client returns one generation per prompt, the call returns
\* exactly one score per sample, the i-th computed from sample i alone.
C5_OneAlignedScorePerSample ==
    (failedSample = 0 /\ (Returned \/ Raised)) =>
        /\ Returned
        /\ Len(scores) = NumSamples
        /\ \A i \in 1..NumSamples :
               /\ prompts[i].context = Join(dataset.contexts[i], NL)
               /\ submitted[i] = OrNil(GetStatements(Parsed(i)))
               /\ scores[i].val = (IF IsTrue(outputs[i]) THEN 1 ELSE 0)

\* C6: a sample with at least one submitted statement scores within [0,1]; a
\* sample with no submitted statement gets the undefined marker.
C6_ScoreBounds ==
    Returned =>
        \A i \in 1..Len(scores) :
            /\ NumSubmitted(i) >= 1 =>
                   scores[i].kind = "num" /\ scores[i].val >= 0 /\ scores[i].val <= 1
            /\ NumSubmitted(i) = 0 => scores[i] = NaN

\* C7: stage-2 outputs that differ only in the letter case of the verdict
\* tokens give the same score.
C7_VerdictCaseInsensitive ==
    \A i \in 1..Len(scores) :
        \A t \in Texts2 :
            SameUpToCase(t, outputs[i]) =>
                ScoreOutput(t, SubSeq(scores, 1, i - 1)).score = scores[i]

C9_NilSentinel ==
    \A k \in 1..Len(submitted) :
        LET v == Parsed(k)
        IN  /\ (~v.has \/ v.statements = JList(<<>>)) =>
                   /\ submitted[k] = NilList
                   /\ prompts[k].statements = <<"statement_", "1", ":", " ", "Nil">>
            /\ (HoldsList(v) /\ v.statements.items # <<>>) =>
                   submitted[k] = v.statements
            /\ (~v.has \/ v.statements.type = "list") =>
                   submitted[k].type = "list" /\ submitted[k].items # <<>>

C9_Witness ==
    /\ Returned
    /\ \E k \in 1..Len(submitted) :
           /\ Parsed(k).has /\ Parsed(k).statements = JList(<<>>)
           /\ submitted[k] = NilList
    /\ \E k \in 1..Len(submitted) :
           /\ HoldsList(Parsed(k)) /\ Len(Parsed(k).statements.items) = MaxStmts
           /\ submitted[k] = Parsed(k).statements

\* C10: the structured branch is never taken; every score is exactly 1 when the
\* raw stage-2 text contains 'statement is true' or '"verdict": "Yes', and
\* exactly 0 otherwise.
C10_SubstringHeuristicOnly ==
    /\ error \in {"none", "ClientFailure", "AttributeError", "TypeError"}
    /\ \A i \in 1..Len(branches) : branches[i] = "substring"
    /\ Len(scores) = Len(branches)
    /\ \A i \in 1..Len(scores) :
           scores[i] = IF \/ Contains(outputs[i], <<"statement", " ", "is", " ", "true">>)
                          \/ Contains(outputs[i], <<"\"verdict\":", " ", "\"Yes">>)
                       THEN Num(1) ELSE Num(0)

C10_Witness ==
    /\ Returned
    /\ \E i \in 1..Len(scores) :
           /\ CountYes(outputs[i]) = 1 /\ NumSubmitted(i) = MaxStmts
           /\ scores[i] = Num(1)
    /\ \E i \in 1..Len(scores) :
           /\ outputs[i] = VerdictArray(<<"\"yes">>, <<" ">>)
           /\ scores[i] = Num(0)

\* ------------------------------------------------------------ supporting lemmas

\* When the call returns, it returns one score per sample, the i-th built from
\* contexts[i], stage-1 generation i and stage-2 generation i.
ReturnedScoresAligned ==
    Returned =>
        /\ Len(scores) = NumSamples
        /\ \A i \in 1..NumSamples :
               /\ prompts[i].context = Join(dataset.contexts[i], NL)
               /\ submitted[i] = OrNil(GetStatements(Parsed(i)))
               /\ scores[i].val = (IF IsTrue(outputs[i]) THEN 1 ELSE 0)

\* Statements without a line break give one labelled line each.
SingleLineStatementsLabelled ==
    \A k \in 1..Len(submitted) :
        (/\ HoldsList(Parsed(k))
         /\ \A i \in 1..Len(Parsed(k).statements.items) :
                ~Contains(Parsed(k).statements.items[i], <<NL>>)) =>
            LET items == submitted[k].items
            IN  Lines(prompts[k].statements) =
                    [i \in 1..Len(items) |->
                        <<"statement_", Digits[i], ":", " ">> \o items[i]]

====
